---- MODULE Spec2Model ----
(***************************************************************************)
(* Model of nut_udp_bridge.py: the status classifiers, to_int and the      *)
(* runtime fields, the replace-battery debounce, the poll loop of          *)
(* UPSUDPBridge.run and the shutdown guard (_sig_handler /                 *)
(* _send_dead_packet / atexit) under asynchronous signals.                 *)
(*                                                                         *)
(* A Python str is modelled as a sequence of one-character strings, so     *)
(* that upper(), strip(), split(), " ".join() and the `in` substring test  *)
(* are computed as the code computes them.                                 *)
(***************************************************************************)
EXTENDS Integers, Sequences, FiniteSets, TLC

(***************************************************************************)
(* Bounds of the model.                                                    *)
(***************************************************************************)
\* most tokens in an ups.status value drawn by the poll loop
MaxTokens == 2
\* most tokens in an input of the pure classifiers
MaxFnTokens == 2
\* largest configured rb_debounce_polls drawn at start
MaxThreshold == 2
\* rb_count is not driven beyond rb_threshold + RbSlack
RbSlack == 1
\* number of termination signals delivered in one run
MaxSignals == 2

\* the count of fetches begun after the running flag was cleared saturates here
MaxLateFetch == 2
\* longest battery.runtime value drawn character by character
MaxRtLen == 3

(***************************************************************************)
(* Python str helpers.                                                     *)
(***************************************************************************)
LowerLetters ==
  <<"a","b","c","d","e","f","g","h","i","j","k","l","m",
    "n","o","p","q","r","s","t","u","v","w","x","y","z">>

UpperLetters ==
  <<"A","B","C","D","E","F","G","H","I","J","K","L","M",
    "N","O","P","Q","R","S","T","U","V","W","X","Y","Z">>

\* str.upper() on the letters
UpperTable ==
  [c \in {LowerLetters[i] : i \in 1..26} |->
     UpperLetters[CHOOSE i \in 1..26 : LowerLetters[i] = c]]

\* str.lower() on the letters
LowerTable ==
  [c \in {UpperLetters[i] : i \in 1..26} |->
     LowerLetters[CHOOSE i \in 1..26 : UpperLetters[i] = c]]

\* str.upper() on one character
UpperChar(c) == IF c \in DOMAIN UpperTable THEN UpperTable[c] ELSE c

\* str.lower() on one character
LowerChar(c) == IF c \in DOMAIN LowerTable THEN LowerTable[c] ELSE c

\* s.upper()
Upper(s) == [i \in 1..Len(s) |-> UpperChar(s[i])]

\* s.lower()
Lower(s) == [i \in 1..Len(s) |-> LowerChar(s[i])]

\* p in s
Contains(s, p) ==
  \E i \in 1..(Len(s) - Len(p) + 1) : \A j \in 1..Len(p) : s[i + j - 1] = p[j]

\* s.strip()
Strip(s) ==
  IF \A i \in 1..Len(s) : s[i] = " "
  THEN <<>>
  ELSE LET a == CHOOSE i \in 1..Len(s) :
                  s[i] # " " /\ \A j \in 1..(i - 1) : s[j] = " "
           b == CHOOSE i \in 1..Len(s) :
                  s[i] # " " /\ \A j \in (i + 1)..Len(s) : s[j] = " "
       IN  SubSeq(s, a, b)

\* s.split(): the maximal runs of non-blank characters, in order
RECURSIVE SplitFrom(_, _, _)
SplitFrom(s, i, cur) ==
  IF i > Len(s)
  THEN IF cur = <<>> THEN <<>> ELSE <<cur>>
  ELSE IF s[i] = " "
       THEN (IF cur = <<>> THEN <<>> ELSE <<cur>>) \o SplitFrom(s, i + 1, <<>>)
       ELSE SplitFrom(s, i + 1, Append(cur, s[i]))

Split(s) == SplitFrom(s, 1, <<>>)

\* " ".join(tokens)
RECURSIVE Join(_)
Join(tokens) ==
  IF tokens = <<>> THEN <<>>
  ELSE IF Len(tokens) = 1 THEN tokens[1]
  ELSE tokens[1] \o <<" ">> \o Join(Tail(tokens))

(***************************************************************************)
(* String literals of the source, as character sequences.                  *)
(***************************************************************************)
\* "FSD"
S_FSD == <<"F","S","D">>

\* "OVER"
S_OVER == <<"O","V","E","R">>

\* "RB"
S_RB == <<"R","B">>

\* "REPLACE"
S_REPLACE == <<"R","E","P","L","A","C","E">>

\* "LB"
S_LB == <<"L","B">>

\* "LOW"
S_LOW == <<"L","O","W">>

\* "OB"
S_OB == <<"O","B">>

\* "ONBATT"
S_ONBATT == <<"O","N","B","A","T","T">>

\* "ON BATTERY"
S_ON_BATTERY == <<"O","N"," ","B","A","T","T","E","R","Y">>

\* "OL"
S_OL == <<"O","L">>

\* "ONLINE"
S_ONLINE == <<"O","N","L","I","N","E">>

\* "CHRG"
S_CHRG == <<"C","H","R","G">>

\* "DISCHRG"
S_DISCHRG == <<"D","I","S","C","H","R","G">>

\* "REPLACEBATTERY"
S_REPLACEBATTERY == <<"R","E","P","L","A","C","E","B","A","T","T","E","R","Y">>

\* "BATTREPLACE"
S_BATTREPLACE == <<"B","A","T","T","R","E","P","L","A","C","E">>

\* "unknown"
T_unknown == <<"u","n","k","n","o","w","n">>

\* "shutdown_imminent"
T_shutdown_imminent == <<"s","h","u","t","d","o","w","n","_","i","m","m","i","n","e","n","t">>

\* "overload"
T_overload == <<"o","v","e","r","l","o","a","d">>

\* "replace_battery"
T_replace_battery == <<"r","e","p","l","a","c","e","_","b","a","t","t","e","r","y">>

\* "low_battery"
T_low_battery == <<"l","o","w","_","b","a","t","t","e","r","y">>

\* "on_battery"
T_on_battery == <<"o","n","_","b","a","t","t","e","r","y">>

\* "online"
T_online == <<"o","n","l","i","n","e">>

\* "in progress"
P_in_progress == <<"i","n"," ","p","r","o","g","r","e","s","s">>

\* "progress"
P_progress == <<"p","r","o","g","r","e","s","s">>

\* "testing"
P_testing == <<"t","e","s","t","i","n","g">>

\* "self-test in progress"
P_self_test_in_progress == <<"s","e","l","f","-","t","e","s","t"," ","i","n"," ","p","r","o","g","r","e","s","s">>

\* "selftest in progress"
P_selftest_in_progress == <<"s","e","l","f","t","e","s","t"," ","i","n"," ","p","r","o","g","r","e","s","s">>

(***************************************************************************)
(* The classifiers (module-level functions of the source).                 *)
(***************************************************************************)
BACKOFF_ERROR_SEC == 10

\* map_status with the replace-battery test moved ahead of FSD and OVER
map_status_rb_first(raw) ==
  LET s == Upper(Strip(raw)) IN
  IF s = <<>> THEN [num |-> 9, text |-> T_unknown]
  ELSE IF Contains(s, S_RB) \/ Contains(s, S_REPLACE)
       THEN [num |-> 4, text |-> T_replace_battery]
  ELSE IF Contains(s, S_FSD) THEN [num |-> 6, text |-> T_shutdown_imminent]
  ELSE IF Contains(s, S_OVER) THEN [num |-> 5, text |-> T_overload]
  ELSE IF Contains(s, S_LB) \/ Contains(s, S_LOW)
       THEN [num |-> 3, text |-> T_low_battery]
  ELSE IF Contains(s, S_OB) \/ Contains(s, S_ONBATT) \/ Contains(s, S_ON_BATTERY)
       THEN [num |-> 2, text |-> T_on_battery]
  ELSE IF Contains(s, S_OL) \/ Contains(s, S_ONLINE)
       THEN [num |-> 1, text |-> T_online]
  ELSE [num |-> 9, text |-> T_unknown]

\* map_status(raw) -> (code, text); first match wins, highest severity first
map_status(raw) ==
  LET s == Upper(Strip(raw)) IN
  IF s = <<>> THEN [num |-> 9, text |-> T_unknown]
  ELSE IF Contains(s, S_FSD) THEN [num |-> 6, text |-> T_shutdown_imminent]
  ELSE IF Contains(s, S_OVER) THEN [num |-> 5, text |-> T_overload]
  ELSE IF Contains(s, S_RB) \/ Contains(s, S_REPLACE)
       THEN [num |-> 4, text |-> T_replace_battery]
  ELSE IF Contains(s, S_LB) \/ Contains(s, S_LOW)
       THEN [num |-> 3, text |-> T_low_battery]
  ELSE IF Contains(s, S_OB) \/ Contains(s, S_ONBATT) \/ Contains(s, S_ON_BATTERY)
       THEN [num |-> 2, text |-> T_on_battery]
  ELSE IF Contains(s, S_OL) \/ Contains(s, S_ONLINE)
       THEN [num |-> 1, text |-> T_online]
  ELSE [num |-> 9, text |-> T_unknown]

\* parse_ups_on_line(raw): 0 on battery, 1 on mains, -1 unknown
parse_ups_on_line(raw) ==
  LET s == Upper(raw) IN
  IF Contains(s, S_OB) \/ Contains(s, S_ONBATT) \/ Contains(s, S_ON_BATTERY) THEN 0
  ELSE IF Contains(s, S_OL) \/ Contains(s, S_ONLINE) THEN 1
  ELSE -1

\* parse_charging_flag(raw): the CHRG test comes first
parse_charging_flag(raw) ==
  LET s == Upper(raw) IN
  IF Contains(s, S_CHRG) THEN 1
  ELSE IF Contains(s, S_DISCHRG) THEN 0
  ELSE -1

\* the drop set of _filter_rb_tokens
RbDropTokens == {S_RB, S_REPLACE, S_REPLACEBATTERY, S_BATTREPLACE}

\* _filter_rb_tokens(status_str): drop the tokens whose upper() is in the drop set
_filter_rb_tokens(status_str) ==
  LET tokens == Split(status_str) IN
  Join(SelectSeq(tokens, LAMBDA t : Upper(t) \notin RbDropTokens))

\* the substrings UPSUDPBridge._selftest_active looks for
SelftestKeys ==
  {P_in_progress, P_progress, P_testing,
   P_self_test_in_progress, P_selftest_in_progress}

\* UPSUDPBridge._selftest_active(data), given data.get("ups.test.result") or ""
_selftest_active(test_result) ==
  LET txt == Lower(Strip(test_result)) IN
  \E k \in SelftestKeys : Contains(txt, k)

\* the raw replace-battery trigger of run(): "RB" in up_upper or "REPLACE" in up_upper
raw_rb_of(status_str_raw) ==
  LET up_upper == Upper(status_str_raw) IN
  Contains(up_upper, S_RB) \/ Contains(up_upper, S_REPLACE)

(***************************************************************************)
(* Inputs drawn by the model.                                              *)
(***************************************************************************)
\* a vendor token that carries REPLACE and is not in the drop set
S_REPLACEBATT == <<"R","E","P","L","A","C","E","B","A","T","T">>

\* tokens of the ups.status values the poll loop draws
StatusTokens == {S_OL, S_RB, S_REPLACEBATT}

\* tokens of the ups.status values drawn when signals are delivered as well
ProcTokens == {S_OL, S_OB, S_RB}

RECURSIVE TokenLists(_, _)
TokenLists(tokens, n) ==
  IF n = 0 THEN {<<>>}
  ELSE LET shorter == TokenLists(tokens, n - 1) IN
       shorter \cup {Append(l, t) : l \in shorter, t \in tokens}

\* the ups.status values of the samples: up to MaxTokens tokens, blank-separated
StatusValues == {Join(l) : l \in TokenLists(StatusTokens, MaxTokens)}

\* the one-token (or empty) ups.status values drawn under Spec
ProcStatusValues == {Join(l) : l \in TokenLists(ProcTokens, 1)}

\* "ON"
S_ON == <<"O","N">>

\* "BATTERY"
S_BATTERY == <<"B","A","T","T","E","R","Y">>

\* "BYPASS"
S_BYPASS == <<"B","Y","P","A","S","S">>

\* "fsd"
S_fsd == <<"f","s","d">>

\* "Ol"
S_Ol == <<"O","l">>

\* tokens of the inputs of the classifiers
FnTokens ==
  {S_OL, S_OB, S_LB, S_RB, S_FSD, S_OVER, S_CHRG, S_DISCHRG, S_REPLACE,
   S_REPLACEBATT, S_ONLINE, S_ONBATT, S_ON, S_BATTERY, S_LOW, S_BYPASS,
   S_fsd, S_Ol}

\* the inputs of the classifiers: up to MaxFnTokens tokens, blank-separated,
\* bare or with a blank on both sides
FnInputs ==
  LET bare == {Join(l) : l \in TokenLists(FnTokens, MaxFnTokens)} IN
  bare \cup {<<" ">> \o b \o <<" ">> : b \in bare}

\* "In progress"
R_In_progress == <<"I","n"," ","p","r","o","g","r","e","s","s">>

\* "Done and passed"
R_Done_and_passed == <<"D","o","n","e"," ","a","n","d"," ","p","a","s","s","e","d">>

\* the ups.test.result values of the samples (<<>>: key absent)
TestResults == {<<>>, R_In_progress, R_Done_and_passed}

\* descriptions of the RuntimeError raised by _query_upsc
FetchErrors == {"upsc command timed out", "upsc returned empty output"}

\* cfg["intervall_ol"]: an int()-convertible value, or one int() raises on
IntervalValues ==
  {[ok |-> TRUE, val |-> -3], [ok |-> TRUE, val |-> 0], [ok |-> TRUE, val |-> 10],
   [ok |-> FALSE, val |-> 0]}

(***************************************************************************)
(* battery.runtime: to_int and the derived runtime fields.  A Python int   *)
(* has no width and rt / 60 is an IEEE-754 double, so an int is kept as    *)
(* three limbs to base 2^24, most significant first, the first one signed: *)
(* <<a, b, c>> stands for a * 2^48 + b * 2^24 + c with 0 <= b, c < 2^24.   *)
(***************************************************************************)
LimbBase == 16777216

\* carry into the canonical form
Norm(x) ==
  LET t2 == x[2] + (x[3] \div LimbBase) IN
  <<x[1] + (t2 \div LimbBase), t2 % LimbBase, x[3] % LimbBase>>

\* the int n, |n| < 2^31
FromInt(n) == Norm(<<0, 0, n>>)

\* -x
Neg(x) == Norm(<<-x[1], -x[2], -x[3]>>)

\* x + n for a small n
AddSmall(x, n) == Norm(<<x[1], x[2], x[3] + n>>)

\* x < 0
IsNeg(x) == x[1] < 0

\* int.bit_length() of a small n >= 0
RECURSIVE BitLenSmall(_)
BitLenSmall(n) == IF n = 0 THEN 0 ELSE 1 + BitLenSmall(n \div 2)

\* int.bit_length() of x >= 0
BitLen(x) ==
  IF x[1] > 0 THEN 48 + BitLenSmall(x[1])
  ELSE IF x[2] > 0 THEN 24 + BitLenSmall(x[2])
  ELSE BitLenSmall(x[3])

\* 2^k for a small k
RECURSIVE Pow2(_)
Pow2(k) == IF k <= 0 THEN 1 ELSE 2 * Pow2(k - 1)

\* the decimal digits
DigitTable ==
  [c \in {"0","1","2","3","4","5","6","7","8","9"} |->
     CHOOSE d \in 0..9 : <<"0","1","2","3","4","5","6","7","8","9">>[d + 1] = c]

\* the value of a string of decimal digits
RECURSIVE DigitsValue(_)
DigitsValue(ds) ==
  IF ds = <<>> THEN <<0, 0, 0>>
  ELSE LET m == DigitsValue(SubSeq(ds, 1, Len(ds) - 1)) IN
       Norm(<<10 * m[1], 10 * m[2], 10 * m[3] + DigitTable[ds[Len(ds)]]>>)

\* the digits of a numeral, its sign taken off
Unsigned(t) == IF t # <<>> /\ t[1] \in {"+", "-"} THEN Tail(t) ELSE t

\* t is an optional sign followed by one or more decimal digits: what int()
\* and float() both accept among the strings of RuntimeChars
IsNumeral(t) ==
  /\ Unsigned(t) # <<>>
  /\ \A i \in 1..Len(Unsigned(t)) : Unsigned(t)[i] \in DOMAIN DigitTable

\* the double nearest to the int x >= 0, ties to the even significand (53 bits)
NearestDouble(x) ==
  IF BitLen(x) <= 53 THEN x
  ELSE LET p    == Pow2(BitLen(x) - 53)
           low  == x[3] % p
           keep == x[3] - low
           up   == \/ 2 * low > p
                   \/ 2 * low = p /\ (x[3] \div p) % 2 = 1
       IN  Norm(<<x[1], x[2], keep + (IF up THEN p ELSE 0)>>)

\* int(float(txt)) for a numeral txt
int_of_float(txt) ==
  LET m == NearestDouble(DigitsValue(Unsigned(txt))) IN
  IF txt[1] = "-" THEN Neg(m) ELSE m

\* int(tok) for a numeral tok
int_of(tok) ==
  LET m == DigitsValue(Unsigned(tok)) IN
  IF tok[1] = "-" THEN Neg(m) ELSE m

\* to_int(v): v is <<>> for None and <<str>> for a str; so is the result
to_int(v) ==
  IF v = <<>> THEN <<>>
  ELSE LET txt == Strip(v[1]) IN
       IF txt = <<>> THEN <<>>
       ELSE IF IsNumeral(txt) THEN <<int_of_float(txt)>>
       ELSE IF IsNumeral(Split(txt)[1]) THEN <<int_of(Split(txt)[1])>>
       ELSE <<>>

\* rt // 60 and rt % 60, by short division over the limbs
floordiv_60(rt) ==
  LET c2 == (rt[1] % 60) * LimbBase + rt[2]
      c3 == (c2 % 60) * LimbBase + rt[3]
  IN  [q |-> <<rt[1] \div 60, c2 \div 60, c3 \div 60>>, r |-> c3 % 60]

\* the double rt / 60 is the integer `target`: the nearest double to the
\* quotient, which lies d/60 away from `target` in the binade of `binade`, is
\* `target` itself when d/60 is under half a unit in the last place, 2^-sh; a
\* tie goes to the even significand
RoundsToInt(binade, target, d) ==
  LET sh == 54 - BitLen(binade) IN
  /\ BitLen(binade) >= 1
  /\ sh < 6
  /\ \/ d * Pow2(sh) < 60
     \/ d * Pow2(sh) = 60 /\ (sh > 1 \/ target[3] % 2 = 0)

\* math.ceil(rt / 60), for |rt // 60| < 2^53
ceil_truediv_60(rt) ==
  LET fd == floordiv_60(rt) IN
  IF fd.r = 0 THEN fd.q
  ELSE IF ~IsNeg(fd.q)
       THEN IF RoundsToInt(fd.q, fd.q, fd.r) THEN fd.q ELSE AddSmall(fd.q, 1)
       ELSE IF RoundsToInt(AddSmall(Neg(fd.q), -1), Neg(fd.q), fd.r)
            THEN fd.q ELSE AddSmall(fd.q, 1)

\* the runtime fields run() adds to the payload
runtime_fields(rt) ==
  IF rt = <<>> THEN <<>>
  ELSE [runtime_total_sec |-> rt[1],
        runtime_total_min |-> ceil_truediv_60(rt[1]),
        runtime_min       |-> floordiv_60(rt[1]).q,
        runtime_sec       |-> FromInt(floordiv_60(rt[1]).r)]

\* the characters of the battery.runtime values: digits, a sign, a blank and
\* a unit letter (no decimal point, exponent, underscore, "inf" or "nan")
RuntimeChars == {"0", "1", "5", "6", "9", "-", " ", "s"}

\* "125"
N_125 == <<"1","2","5">>

\* "3600"
N_3600 == <<"3","6","0","0">>

\* "16888498602639361": 60 * 2^48 + 1
N_16888498602639361 ==
  <<"1","6","8","8","8","4","9","8","6","0","2","6","3","9","3","6","1">>

\* data.get("battery.runtime"): <<>> for an absent key, else <<str>>; every
\* string of up to MaxRtLen characters, and three longer numerals bare, signed
\* and with a unit
RuntimeValues ==
  LET short == UNION {[1..n -> RuntimeChars] : n \in 0..MaxRtLen}
      long  == {N_125, N_3600, N_16888498602639361}
  IN  {<<>>}
      \cup {<<s>> : s \in short}
      \cup {<<n>> : n \in long}
      \cup {<<(<<"-">> \o n)>> : n \in long}
      \cup {<<(<<" ">> \o n \o <<" ","s">>)>> : n \in long}

(***************************************************************************)
(* State.                                                                  *)
(***************************************************************************)
VARIABLES
  rb_threshold,               \* self.rb_threshold
  rb_ignore_during_selftest,  \* self.rb_ignore_during_selftest
  intervall_ol,               \* self.cfg["intervall_ol"]
  running,                    \* self.running
  last_known_status_num,      \* self.last_known_status_num
  last_known_status_text,     \* self.last_known_status_text
  _dead_sent,                 \* self._dead_sent
  rb_count,                   \* self.rb_count
  sock,                       \* self.sock: "open" or "closed"
  stack,                      \* control: main frame first, innermost frame last
  loc,                        \* locals of run() in the current iteration
  handed,                     \* payloads run() gave _send_packet this iteration, and whether each went out
  exit_code,                  \* -1 while the process lives
  sigLeft,                    \* signals still to be delivered
  deadCount,                  \* history: dead records that went out on the socket
  deadPkt,                    \* history: the dead records built, each with lastOk at that time
                              \*   and whether run() was between its two LastKnownState writes
  deadReturned,               \* history: some _send_dead_packet call has returned
  closeCount,                 \* history: executions of self.sock.close()
  pre,                        \* history: rb_count / LastKnownState when the fetch began
  trigRun,                    \* history: successful trigger-present cycles in a row
  runSupp,                    \* history: a cycle of the current run was self-test suppressed
  lastOk,                     \* history: code / on_mains of the last completed update
  lateFetch,                  \* history: fetches begun while self.running was False
  runFailed,                  \* history: a fetch failed since the current run of trigger cycles began
  fn                          \* input and results of the classifiers (SpecFn)

vars ==
  <<rb_threshold, rb_ignore_during_selftest, intervall_ol, running,
    last_known_status_num, last_known_status_text, _dead_sent, rb_count, sock,
    stack, loc, handed, exit_code, sigLeft, deadCount, deadPkt, deadReturned,
    closeCount, pre, trigRun, runSupp, lastOk, lateFetch, runFailed, fn>>

cfgVars == <<rb_threshold, rb_ignore_during_selftest, intervall_ol>>

histLoop == <<pre, trigRun, runSupp, lastOk, lateFetch, runFailed>>

histGuard == <<deadCount, deadPkt, deadReturned, closeCount>>

NoLoc ==
  [status_str_raw |-> <<>>, st_active |-> FALSE, raw_rb |-> FALSE,
   rb_allowed |-> FALSE, eff_status_str |-> <<>>, status_num |-> 0,
   status_text |-> <<>>, chg |-> -1, sleep_s |-> 0]

NoPre == [rb |-> -1, num |-> 0, text |-> <<>>]

NoFn == [op |-> "none"]

\* the frame on top of the stack is the one that runs
Top == stack[Len(stack)]

MainPc == stack[1]

Goto(pc) == stack' = [stack EXCEPT ![Len(stack)] = pc]

Return == stack' = SubSeq(stack, 1, Len(stack) - 1)

\* the caller moves on to `pc` and the callee starts at `callee`
Call(pc, callee) == stack' = Append([stack EXCEPT ![Len(stack)] = pc], callee)

(***************************************************************************)
(* UPSUDPBridge.__init__ has run: the state after construction.            *)
(***************************************************************************)
Constructed ==
  /\ running = TRUE
  /\ last_known_status_num = 9
  /\ last_known_status_text = T_unknown
  /\ _dead_sent = FALSE
  /\ rb_count = 0
  /\ sock = "open"
  /\ stack = <<"while">>
  /\ loc = NoLoc
  /\ handed = <<>>
  /\ exit_code = -1
  /\ sigLeft = MaxSignals
  /\ deadCount = 0
  /\ deadPkt = <<>>
  /\ deadReturned = FALSE
  /\ closeCount = 0
  /\ pre = NoPre
  /\ trigRun = 0
  /\ runSupp = FALSE
  /\ lastOk = [num |-> 9, on_line |-> -1]
  /\ lateFetch = 0
  /\ runFailed = FALSE
  /\ fn = NoFn

\* the poll loop alone, over every configuration
InitLoop ==
  /\ rb_threshold \in 0..MaxThreshold
  /\ rb_ignore_during_selftest \in BOOLEAN
  /\ intervall_ol \in IntervalValues
  /\ Constructed

\* the whole process: the debounce configuration is fixed, since neither the
\* handler nor the guard reads the counter
Init ==
  /\ rb_threshold = 1
  /\ rb_ignore_during_selftest = TRUE
  /\ intervall_ol \in {[ok |-> TRUE, val |-> 10], [ok |-> FALSE, val |-> 0]}
  /\ Constructed

(***************************************************************************)
(* The computations of run(), one operator per statement group.            *)
(***************************************************************************)
\* the counter counting every trigger-present cycle, self-test or not
next_rb_count_no_selftest(count, raw_rb, st_active, ignore) ==
  IF raw_rb THEN count + 1 ELSE 0

\* the debounce counter after a successful fetch
next_rb_count(count, raw_rb, st_active, ignore) ==
  IF raw_rb /\ ~(ignore /\ st_active) THEN count + 1 ELSE 0

\* rb_allowed with the comparison off by one
rb_allowed_of_gt(count, threshold, raw_rb, st_active, ignore) ==
  raw_rb /\ (count > threshold) /\ ~(ignore /\ st_active)

\* rb_allowed: may the replace-battery flag take effect in this cycle
rb_allowed_of(count, threshold, raw_rb, st_active, ignore) ==
  raw_rb /\ (count >= threshold) /\ ~(ignore /\ st_active)

\* eff_status_str
eff_status_of(status_str_raw, rb_allowed) ==
  IF rb_allowed THEN status_str_raw ELSE _filter_rb_tokens(status_str_raw)

\* the alive=1 payload of a successful cycle (source, timestamp, host and the
\* enrichment fields are left out)
alive_payload(l) ==
  LET base == [alive |-> 1,
               ups_status |-> l.status_num,
               ups_on_line |-> parse_ups_on_line(l.eff_status_str),
               status_raw |-> Strip(Lower(l.eff_status_str))]
  IN  IF l.chg # -1 THEN base @@ [battery_charging |-> l.chg] ELSE base

\* the error payload with alive left at 1
error_payload_alive(e) ==
  [alive |-> 1, ups_status |-> 9, ups_on_line |-> -1,
   status_raw |-> T_unknown, error |-> e]

\* the payload of the communication-error path
error_payload(e) ==
  [alive |-> 0, ups_status |-> 9, ups_on_line |-> -1,
   status_raw |-> T_unknown, error |-> e]

\* the record _send_dead_packet builds
dead_payload(num, text) ==
  [alive |-> 0, ups_status |-> num,
   ups_on_line |-> parse_ups_on_line(text),
   status_raw |-> Strip(Lower(text))]

\* sleep_s without the max(1, ...) clamp
sleep_after_unclamped(status_num, interval) ==
  IF status_num = 1 THEN interval ELSE 5

\* sleep_s after a successful cycle; int() has succeeded on `interval`
sleep_after(status_num, interval) ==
  IF status_num = 1
  THEN (IF interval > 1 THEN interval ELSE 1)
  ELSE 5

\* outcomes of self.sock.sendto inside _send_packet: a closed socket always
\* raises, an open one may; _send_packet swallows the exception
SendOutcomes == IF sock = "open" THEN {TRUE, FALSE} ELSE {FALSE}

\* the run length recorded in trigRun saturates here
RunCap == rb_threshold + RbSlack

\* lateFetch once self._query_upsc() is called
late_fetch_count ==
  IF ~running /\ lateFetch < MaxLateFetch THEN lateFetch + 1 ELSE lateFetch

(***************************************************************************)
(* UPSUDPBridge.run: the poll loop.                                        *)
(***************************************************************************)
InMain(pc) == Len(stack) = 1 /\ Top = pc

\* the loop head taken as `while True:`
While_unconditional ==
  /\ InMain("while")
  /\ Goto("poll")
  /\ UNCHANGED <<cfgVars, running, last_known_status_num, last_known_status_text,
                 _dead_sent, rb_count, sock, loc, handed, exit_code, sigLeft,
                 histGuard, histLoop, fn>>

\* while self.running:
While ==
  /\ InMain("while")
  /\ IF running THEN Goto("poll") ELSE Goto("exit_call")
  /\ UNCHANGED <<cfgVars, running, last_known_status_num, last_known_status_text,
                 _dead_sent, rb_count, sock, loc, handed, exit_code, sigLeft,
                 histGuard, histLoop, fn>>

\* the fetch succeeds; debounce, classification, and the first assignment of
\* LastKnownState
PollOk(status_str_raw, test_result) ==
  LET raw_rb     == raw_rb_of(status_str_raw)
      st_active  == _selftest_active(test_result)
      count      == next_rb_count(rb_count, raw_rb, st_active,
                                  rb_ignore_during_selftest)
      rb_allowed == rb_allowed_of(count, rb_threshold, raw_rb, st_active,
                                  rb_ignore_during_selftest)
      eff        == eff_status_of(status_str_raw, rb_allowed)
      ms         == map_status(eff)
      supp       == rb_ignore_during_selftest /\ st_active
  IN
  /\ InMain("poll")
  /\ count <= RunCap
  /\ rb_count' = count
  /\ loc' = [status_str_raw |-> status_str_raw, st_active |-> st_active,
             raw_rb |-> raw_rb, rb_allowed |-> rb_allowed,
             eff_status_str |-> eff, status_num |-> ms.num,
             status_text |-> ms.text, chg |-> parse_charging_flag(eff),
             sleep_s |-> 0]
  /\ last_known_status_num' = ms.num
  /\ Goto("lk_text")
  /\ pre' = [NoPre EXCEPT !.rb = rb_count]
  /\ trigRun' = IF ~raw_rb THEN 0
                ELSE IF trigRun < RunCap THEN trigRun + 1 ELSE trigRun
  /\ runSupp' = (raw_rb /\ (supp \/ (trigRun > 0 /\ runSupp)))
  /\ lateFetch' = late_fetch_count
  /\ runFailed' = (raw_rb /\ trigRun > 0 /\ runFailed)
  /\ UNCHANGED <<cfgVars, running, last_known_status_text, _dead_sent, sock,
                 handed, exit_code, sigLeft, histGuard, lastOk, fn>>

\* self.last_known_status_text = status_text
LkText ==
  /\ InMain("lk_text")
  /\ last_known_status_text' = loc.status_text
  /\ lastOk' = [num |-> loc.status_num,
                on_line |-> parse_ups_on_line(loc.eff_status_str)]
  /\ Goto("send")
  /\ UNCHANGED <<cfgVars, running, last_known_status_num, _dead_sent, rb_count,
                 sock, loc, handed, exit_code, sigLeft, histGuard, pre, trigRun,
                 runSupp, lateFetch, runFailed, fn>>

\* the successful cycle with the send error raised out of _send_packet
Deliver_raising ==
  /\ InMain("send")
  /\ \E ok \in SendOutcomes :
       /\ handed' = Append(handed, [pkt |-> alive_payload(loc), out |-> ok])
       /\ IF ~ok \/ (loc.status_num = 1 /\ ~intervall_ol.ok)
          THEN /\ Goto("fatal")
               /\ loc' = loc
          ELSE /\ Goto("sleep")
               /\ loc' = [loc EXCEPT !.sleep_s = sleep_after(loc.status_num, intervall_ol.val)]
  /\ UNCHANGED <<cfgVars, running, last_known_status_num, last_known_status_text,
                 _dead_sent, rb_count, sock, exit_code, sigLeft, histGuard,
                 histLoop, fn>>

\* build the payload, _send_packet(payload), then choose sleep_s; int() on a
\* malformed intervall_ol raises out of run()
Deliver ==
  /\ InMain("send")
  /\ \E ok \in SendOutcomes :
       handed' = Append(handed, [pkt |-> alive_payload(loc), out |-> ok])
  /\ IF loc.status_num = 1 /\ ~intervall_ol.ok
     THEN /\ Goto("fatal")
          /\ loc' = loc
     ELSE /\ Goto("sleep")
          /\ loc' = [loc EXCEPT !.sleep_s = sleep_after(loc.status_num, intervall_ol.val)]
  /\ UNCHANGED <<cfgVars, running, last_known_status_num, last_known_status_text,
                 _dead_sent, rb_count, sock, exit_code, sigLeft, histGuard,
                 histLoop, fn>>

\* time.sleep(sleep_s) returns
Sleep ==
  /\ InMain("sleep")
  /\ Goto("while")
  /\ loc' = NoLoc
  /\ handed' = <<>>
  /\ pre' = NoPre
  /\ UNCHANGED <<cfgVars, running, last_known_status_num, last_known_status_text,
                 _dead_sent, rb_count, sock, exit_code, sigLeft, histGuard,
                 trigRun, runSupp, lastOk, lateFetch, runFailed, fn>>

\* the error path also resetting the debounce counter
PollFail_zeroing(e) ==
  /\ InMain("poll")
  /\ \E ok \in SendOutcomes :
       handed' = Append(handed, [pkt |-> error_payload(e), out |-> ok])
  /\ loc' = [NoLoc EXCEPT !.sleep_s = BACKOFF_ERROR_SEC]
  /\ pre' = [rb |-> rb_count, num |-> last_known_status_num,
             text |-> last_known_status_text]
  /\ lateFetch' = late_fetch_count
  /\ runFailed' = (trigRun > 0)
  /\ rb_count' = 0
  /\ Goto("err_sleep")
  /\ UNCHANGED <<cfgVars, running, last_known_status_num, last_known_status_text,
                 _dead_sent, sock, exit_code, sigLeft, histGuard, trigRun,
                 runSupp, lastOk, fn>>

\* the error path also resetting LastKnownState to Unknown
PollFail_resetting(e) ==
  /\ InMain("poll")
  /\ \E ok \in SendOutcomes :
       handed' = Append(handed, [pkt |-> error_payload(e), out |-> ok])
  /\ loc' = [NoLoc EXCEPT !.sleep_s = BACKOFF_ERROR_SEC]
  /\ pre' = [rb |-> rb_count, num |-> last_known_status_num,
             text |-> last_known_status_text]
  /\ lateFetch' = late_fetch_count
  /\ runFailed' = (trigRun > 0)
  /\ last_known_status_num' = 9
  /\ last_known_status_text' = T_unknown
  /\ Goto("err_sleep")
  /\ UNCHANGED <<cfgVars, running, _dead_sent, rb_count, sock, exit_code,
                 sigLeft, histGuard, trigRun, runSupp, lastOk, fn>>

\* the fetch raises: send the error record and choose the fixed backoff
PollFail(e) ==
  /\ InMain("poll")
  /\ \E ok \in SendOutcomes :
       handed' = Append(handed, [pkt |-> error_payload(e), out |-> ok])
  /\ loc' = [NoLoc EXCEPT !.sleep_s = BACKOFF_ERROR_SEC]
  /\ pre' = [rb |-> rb_count, num |-> last_known_status_num,
             text |-> last_known_status_text]
  /\ lateFetch' = late_fetch_count
  /\ runFailed' = (trigRun > 0)
  /\ Goto("err_sleep")
  /\ UNCHANGED <<cfgVars, running, last_known_status_num, last_known_status_text,
                 _dead_sent, rb_count, sock, exit_code, sigLeft, histGuard,
                 trigRun, runSupp, lastOk, fn>>

\* time.sleep(BACKOFF_ERROR_SEC) returns; continue
ErrSleep ==
  /\ InMain("err_sleep")
  /\ Goto("while")
  /\ loc' = NoLoc
  /\ handed' = <<>>
  /\ pre' = NoPre
  /\ UNCHANGED <<cfgVars, running, last_known_status_num, last_known_status_text,
                 _dead_sent, rb_count, sock, exit_code, sigLeft, histGuard,
                 trigRun, runSupp, lastOk, lateFetch, runFailed, fn>>

\* self._send_dead_packet() after the loop
ExitCall ==
  /\ InMain("exit_call")
  /\ Call("stopped", "d_check")
  /\ UNCHANGED <<cfgVars, running, last_known_status_num, last_known_status_text,
                 _dead_sent, rb_count, sock, loc, handed, exit_code, sigLeft,
                 histGuard, histLoop, fn>>

(***************************************************************************)
(* main: run() returns or raises; the interpreter then runs the atexit     *)
(* hook, which is _send_dead_packet again.                                 *)
(***************************************************************************)
\* run() has returned and main returns: exit status 0, atexit hook
Stopped ==
  /\ InMain("stopped")
  /\ exit_code' = 0
  /\ Call("finalize", "d_check")
  /\ UNCHANGED <<cfgVars, running, last_known_status_num, last_known_status_text,
                 _dead_sent, rb_count, sock, loc, handed, sigLeft, histGuard,
                 histLoop, fn>>

\* except Exception in main: bridge._send_dead_packet()
Fatal ==
  /\ InMain("fatal")
  /\ Call("fatal_exit", "d_check")
  /\ UNCHANGED <<cfgVars, running, last_known_status_num, last_known_status_text,
                 _dead_sent, rb_count, sock, loc, handed, exit_code, sigLeft,
                 histGuard, histLoop, fn>>

\* the fatal path ending in exit status 0
FatalExit_status_zero ==
  /\ InMain("fatal_exit")
  /\ exit_code' = 0
  /\ Call("finalize", "d_check")
  /\ UNCHANGED <<cfgVars, running, last_known_status_num, last_known_status_text,
                 _dead_sent, rb_count, sock, loc, handed, sigLeft, histGuard,
                 histLoop, fn>>

\* sys.exit(1): exit status 1, atexit hook
FatalExit ==
  /\ InMain("fatal_exit")
  /\ exit_code' = 1
  /\ Call("finalize", "d_check")
  /\ UNCHANGED <<cfgVars, running, last_known_status_num, last_known_status_text,
                 _dead_sent, rb_count, sock, loc, handed, sigLeft, histGuard,
                 histLoop, fn>>

\* the atexit hook has returned: the process is gone
Finalize ==
  /\ InMain("finalize")
  /\ Goto("exited")
  /\ UNCHANGED <<cfgVars, running, last_known_status_num, last_known_status_text,
                 _dead_sent, rb_count, sock, loc, handed, exit_code, sigLeft,
                 histGuard, histLoop, fn>>

(***************************************************************************)
(* Signals and the shutdown guard.  A Python-level handler runs in the     *)
(* main thread between two bytecodes of whatever is executing, another     *)
(* handler included; the interrupted frame resumes when it returns.        *)
(***************************************************************************)
\* SIGINT / SIGTERM / SIGHUP / SIGQUIT arrives: _sig_handler is entered
Signal ==
  /\ sigLeft > 0
  /\ MainPc # "exited"
  /\ sigLeft' = sigLeft - 1
  /\ stack' = Append(stack, "sig")
  /\ UNCHANGED <<cfgVars, running, last_known_status_num, last_known_status_text,
                 _dead_sent, rb_count, sock, loc, handed, exit_code, histGuard,
                 histLoop, fn>>

\* _sig_handler: self.running = False; self._send_dead_packet() (its last statement)
_sig_handler ==
  /\ Top = "sig"
  /\ running' = FALSE
  /\ Goto("d_check")
  /\ UNCHANGED <<cfgVars, last_known_status_num, last_known_status_text,
                 _dead_sent, rb_count, sock, loc, handed, exit_code, sigLeft,
                 histGuard, histLoop, fn>>

\* _send_dead_packet: if getattr(self, "_dead_sent", False): return
DeadCheck ==
  /\ Top = "d_check"
  /\ IF _dead_sent
     THEN Return /\ deadReturned' = TRUE
     ELSE Goto("d_send") /\ deadReturned' = deadReturned
  /\ UNCHANGED <<cfgVars, running, last_known_status_num, last_known_status_text,
                 _dead_sent, rb_count, sock, loc, handed, exit_code, sigLeft,
                 deadCount, deadPkt, closeCount, histLoop, fn>>

\* _send_dead_packet: build pkt from LastKnownState and self._send_packet(pkt)
DeadSend ==
  /\ Top = "d_send"
  /\ deadPkt' = Append(deadPkt,
       [pkt  |-> dead_payload(last_known_status_num, last_known_status_text),
        last |-> lastOk,
        mid  |-> (MainPc = "lk_text")])
  /\ \E ok \in SendOutcomes : deadCount' = IF ok THEN deadCount + 1 ELSE deadCount
  /\ Goto("d_sleep")
  /\ UNCHANGED <<cfgVars, running, last_known_status_num, last_known_status_text,
                 _dead_sent, rb_count, sock, loc, handed, exit_code, sigLeft,
                 deadReturned, closeCount, histLoop, fn>>

\* the finally block closing the socket without setting _dead_sent
DeadFinally_no_flag ==
  /\ Top = "d_sleep"
  /\ sock' = "closed"
  /\ closeCount' = closeCount + 1
  /\ deadReturned' = TRUE
  /\ Return
  /\ UNCHANGED <<cfgVars, running, last_known_status_num, last_known_status_text,
                 _dead_sent, rb_count, loc, handed, exit_code, sigLeft, deadCount,
                 deadPkt, histLoop, fn>>

\* the finally block setting _dead_sent and leaving the socket open
DeadFinally_no_close ==
  /\ Top = "d_sleep"
  /\ _dead_sent' = TRUE
  /\ deadReturned' = TRUE
  /\ Return
  /\ UNCHANGED <<cfgVars, running, last_known_status_num, last_known_status_text,
                 rb_count, sock, loc, handed, exit_code, sigLeft, deadCount,
                 deadPkt, closeCount, histLoop, fn>>

\* _send_dead_packet: time.sleep(0.05) returns; finally: _dead_sent = True,
\* self.sock.close(); return
DeadFinally ==
  /\ Top = "d_sleep"
  /\ _dead_sent' = TRUE
  /\ sock' = "closed"
  /\ closeCount' = closeCount + 1
  /\ deadReturned' = TRUE
  /\ Return
  /\ UNCHANGED <<cfgVars, running, last_known_status_num, last_known_status_text,
                 rb_count, loc, handed, exit_code, sigLeft, deadCount, deadPkt,
                 histLoop, fn>>

(***************************************************************************)
(* The process.                                                            *)
(***************************************************************************)
Next ==
  \/ While
  \/ \E status_str_raw \in ProcStatusValues, test_result \in TestResults :
       PollOk(status_str_raw, test_result)
  \/ LkText
  \/ Deliver
  \/ Sleep
  \/ \E e \in FetchErrors : PollFail(e)
  \/ ErrSleep
  \/ ExitCall
  \/ Stopped
  \/ Fatal
  \/ FatalExit
  \/ Finalize
  \/ Signal
  \/ _sig_handler
  \/ DeadCheck
  \/ DeadSend
  \/ DeadFinally

Spec == Init /\ [][Next]_vars

(***************************************************************************)
(* The process when every fetch, send and sleep returns: the interpreter   *)
(* always runs the next statement of the innermost frame.  Signals stay    *)
(* optional.                                                               *)
(***************************************************************************)
Step ==
  \/ While
  \/ \E status_str_raw \in ProcStatusValues, test_result \in TestResults :
       PollOk(status_str_raw, test_result)
  \/ LkText
  \/ Deliver
  \/ Sleep
  \/ \E e \in FetchErrors : PollFail(e)
  \/ ErrSleep
  \/ ExitCall
  \/ Stopped
  \/ Fatal
  \/ FatalExit
  \/ Finalize
  \/ _sig_handler
  \/ DeadCheck
  \/ DeadSend
  \/ DeadFinally

SpecLive == Init /\ [][Next]_vars /\ WF_vars(Step)

(***************************************************************************)
(* The poll loop with no signal delivered.  _sig_handler and the guard     *)
(* write only running, _dead_sent and the socket; the loop sees the first  *)
(* at its next test of the flag and the others as a send that fails, which *)
(* SendOutcomes allows at every send.  Every configuration and the wider   *)
(* status vocabulary are explored here.                                    *)
(***************************************************************************)
NextLoop ==
  \/ While
  \/ \E status_str_raw \in StatusValues, test_result \in TestResults :
       PollOk(status_str_raw, test_result)
  \/ LkText
  \/ Deliver
  \/ Sleep
  \/ \E e \in FetchErrors : PollFail(e)
  \/ ErrSleep

SpecLoop == InitLoop /\ [][NextLoop]_vars

(***************************************************************************)
(* The classifiers on their own: the input is drawn at the start and every *)
(* classifier is applied to it.                                            *)
(***************************************************************************)
InitFn ==
  /\ rb_threshold = 1
  /\ rb_ignore_during_selftest = TRUE
  /\ intervall_ol = [ok |-> TRUE, val |-> 10]
  /\ running = TRUE
  /\ last_known_status_num = 9
  /\ last_known_status_text = T_unknown
  /\ _dead_sent = FALSE
  /\ rb_count = 0
  /\ sock = "open"
  /\ stack = <<"while">>
  /\ loc = NoLoc
  /\ handed = <<>>
  /\ exit_code = -1
  /\ sigLeft = 0
  /\ deadCount = 0
  /\ deadPkt = <<>>
  /\ deadReturned = FALSE
  /\ closeCount = 0
  /\ pre = NoPre
  /\ trigRun = 0
  /\ runSupp = FALSE
  /\ lastOk = [num |-> 9, on_line |-> -1]
  /\ lateFetch = 0
  /\ runFailed = FALSE
  /\ fn \in {[op |-> "in", raw |-> raw] : raw \in FnInputs}

Classify ==
  /\ fn.op = "in"
  /\ fn' = [op |-> "out", raw |-> fn.raw,
            status |-> map_status(fn.raw),
            on_line |-> parse_ups_on_line(fn.raw),
            chg |-> parse_charging_flag(fn.raw),
            raw_rb |-> raw_rb_of(fn.raw),
            filtered |-> _filter_rb_tokens(fn.raw)]
  /\ UNCHANGED <<cfgVars, running, last_known_status_num, last_known_status_text,
                 _dead_sent, rb_count, sock, stack, loc, handed, exit_code,
                 sigLeft, histGuard, histLoop>>

NextFn == Classify

SpecFn == InitFn /\ [][NextFn]_vars

(***************************************************************************)
(* The runtime fields on their own: a battery.runtime value is drawn at    *)
(* the start, converted by to_int, and the fields are derived from it.     *)
(***************************************************************************)
InitRt ==
  /\ rb_threshold = 1
  /\ rb_ignore_during_selftest = TRUE
  /\ intervall_ol = [ok |-> TRUE, val |-> 10]
  /\ running = TRUE
  /\ last_known_status_num = 9
  /\ last_known_status_text = T_unknown
  /\ _dead_sent = FALSE
  /\ rb_count = 0
  /\ sock = "open"
  /\ stack = <<"while">>
  /\ loc = NoLoc
  /\ handed = <<>>
  /\ exit_code = -1
  /\ sigLeft = 0
  /\ deadCount = 0
  /\ deadPkt = <<>>
  /\ deadReturned = FALSE
  /\ closeCount = 0
  /\ pre = NoPre
  /\ trigRun = 0
  /\ runSupp = FALSE
  /\ lastOk = [num |-> 9, on_line |-> -1]
  /\ lateFetch = 0
  /\ runFailed = FALSE
  /\ fn \in {[op |-> "rt_in", v |-> v] : v \in RuntimeValues}

\* rt = to_int(data.get("battery.runtime")) and the payload fields from it
DeriveRuntime ==
  /\ fn.op = "rt_in"
  /\ fn' = [op |-> "rt_out", v |-> fn.v, rt |-> to_int(fn.v),
            fields |-> runtime_fields(to_int(fn.v))]
  /\ UNCHANGED <<cfgVars, running, last_known_status_num, last_known_status_text,
                 _dead_sent, rb_count, sock, stack, loc, handed, exit_code,
                 sigLeft, histGuard, histLoop>>

NextRt == DeriveRuntime

SpecRt == InitRt /\ [][NextRt]_vars

(***************************************************************************)
(* Properties of the classifiers (SpecFn).                                 *)
(***************************************************************************)
\* the flag families of the status vocabulary, with their severity codes
FlagFamilies ==
  {[code |-> 6, label |-> T_shutdown_imminent, pats |-> {S_FSD}],
   [code |-> 5, label |-> T_overload,          pats |-> {S_OVER}],
   [code |-> 4, label |-> T_replace_battery,   pats |-> {S_RB, S_REPLACE}],
   [code |-> 3, label |-> T_low_battery,       pats |-> {S_LB, S_LOW}],
   [code |-> 2, label |-> T_on_battery,        pats |-> {S_OB, S_ONBATT, S_ON_BATTERY}],
   [code |-> 1, label |-> T_online,            pats |-> {S_OL, S_ONLINE}]}

\* the families with a pattern somewhere in the upper-cased string
FamiliesPresent(raw) ==
  {f \in FlagFamilies : \E p \in f.pats : Contains(Upper(raw), p)}

\* C6: map_status is total and returns the code and label of the most severe
\* flag family present in the string (FSD 6 > OVER 5 > RB/REPLACE 4 > LB/LOW 3 >
\* OB/ONBATT/ON BATTERY 2 > OL/ONLINE 1), Unknown 9 when none is present; a
\* string containing FSD gives 6 whatever else it contains.
C6_MapStatusHighestSeverity ==
  fn.op = "out" =>
    LET present == FamiliesPresent(fn.raw) IN
    /\ fn.status.num \in {1, 2, 3, 4, 5, 6, 9}
    /\ present = {} => fn.status = [num |-> 9, text |-> T_unknown]
    /\ present # {} =>
         \E f \in present :
           /\ \A g \in present : g.code <= f.code
           /\ fn.status = [num |-> f.code, text |-> f.label]
    /\ Contains(Upper(fn.raw), S_FSD) => fn.status.num = 6

\* a lower-case fsd next to a replace-battery token has been classified
C6_Witness ==
  /\ fn.op = "out"
  /\ Contains(fn.raw, S_fsd)
  /\ Contains(fn.raw, S_RB)
  /\ fn.status.num = 6

\* the whitespace-delimited tokens of a string, upper-cased
TokensOf(str) == {Upper(Split(str)[i]) : i \in 1..Len(Split(str))}

\* C7 (as claimed): parse_charging_flag gives 1 for a status carrying the CHRG
\* token, 0 for one carrying DISCHRG and not CHRG, and -1 for one carrying
\* neither.
C7_ChargingFlagThreeWay ==
  fn.op = "out" =>
    LET toks == TokensOf(fn.raw) IN
    /\ S_CHRG \in toks => fn.chg = 1
    /\ (S_DISCHRG \in toks /\ S_CHRG \notin toks) => fn.chg = 0
    /\ (S_DISCHRG \notin toks /\ S_CHRG \notin toks) => fn.chg = -1

(***************************************************************************)
(* Properties of the poll loop (SpecLoop).                                 *)
(***************************************************************************)
\* run() is past the classification of a successful cycle
CycleClassified == MainPc \in {"lk_text", "send", "sleep", "fatal"}

\* run() has handed the record of a successful cycle to _send_packet
CycleDelivered == MainPc \in {"sleep", "fatal"}

C4_NotAllowedNeverReplaceBattery ==
  (CycleDelivered /\ loc.raw_rb /\ ~loc.rb_allowed) =>
    /\ Len(handed) = 1
    /\ handed[1].pkt.ups_status # 4
    /\ loc.status_num # 4

\* C5: with rb_ignore_during_selftest set, a successful cycle that detects an
\* active self-test leaves the counter at zero and does not allow the flag,
\* whatever the counter was and however long the trigger has been present.
C5_SelftestSuppression ==
  (CycleClassified /\ rb_ignore_during_selftest /\ loc.st_active) =>
    /\ rb_count = 0
    /\ ~loc.rb_allowed

\* a suppressed trigger cycle that follows a counted one, in a run of 2 or more
C5_Witness ==
  /\ MainPc = "lk_text"
  /\ rb_ignore_during_selftest
  /\ loc.st_active
  /\ loc.raw_rb
  /\ pre.rb > 0
  /\ trigRun >= 2
  /\ rb_count = 0

\* C8: a failed fetch hands exactly one record to _send_packet, alive=0, code 9,
\* on_mains -1, text "unknown", with the error description; the cycle changes
\* neither the counter nor LastKnownState nor any classification local, and
\* sleeps BACKOFF_ERROR_SEC = 10; the record of a successful cycle has alive=1
\* and no error field.
C8_FetchFailureRecord ==
  /\ MainPc = "err_sleep" =>
       /\ Len(handed) = 1
       /\ DOMAIN handed[1].pkt =
            {"alive", "ups_status", "ups_on_line", "status_raw", "error"}
       /\ handed[1].pkt.alive = 0
       /\ handed[1].pkt.ups_status = 9
       /\ handed[1].pkt.ups_on_line = -1
       /\ handed[1].pkt.status_raw = T_unknown
       /\ handed[1].pkt.error \in FetchErrors
       /\ rb_count = pre.rb
       /\ last_known_status_num = pre.num
       /\ last_known_status_text = pre.text
       /\ loc = [NoLoc EXCEPT !.sleep_s = 10]
  /\ CycleDelivered =>
       /\ Len(handed) = 1
       /\ handed[1].pkt.alive = 1
       /\ "error" \notin DOMAIN handed[1].pkt

\* a fetch failed after a counted trigger cycle and the error record went out
C8_Witness ==
  /\ MainPc = "err_sleep"
  /\ rb_count > 0
  /\ last_known_status_num = 1
  /\ handed[1].out
  /\ handed[1].pkt.error = "upsc command timed out"

\* C10: after a successful cycle sleep_s is max(1, intervall_ol) when the
\* condition is Online(1) and 5 for every other code: 10 for interval 10, 1 for
\* interval 0 or a negative one.
C10_SleepInterval ==
  MainPc = "sleep" =>
    /\ (loc.status_num = 1 /\ intervall_ol.val >= 1) => loc.sleep_s = intervall_ol.val
    /\ (loc.status_num = 1 /\ intervall_ol.val < 1) => loc.sleep_s = 1
    /\ (loc.status_num = 1 /\ intervall_ol.val = 10) => loc.sleep_s = 10
    /\ loc.status_num # 1 => loc.sleep_s = 5

\* an Online cycle under interval 0 sleeps 1 second
C10_Witness ==
  /\ MainPc = "sleep"
  /\ loc.status_num = 1
  /\ intervall_ol = [ok |-> TRUE, val |-> 0]
  /\ loc.sleep_s = 1

(***************************************************************************)
(* Properties of the shutdown guard (Spec).                                *)
(***************************************************************************)
\* C1 (as claimed): at most one dead record ever goes out, and exactly one has
\* gone out when the process is gone, on every exit path.
C1_ExactlyOneDeadRecord ==
  /\ deadCount <= 1
  /\ MainPc = "exited" => deadCount = 1

\* the frame on top ran a statement in this step (no handler was pushed onto it)
TopRan == stack' # stack /\ Len(stack') <= Len(stack)

\* C2: a _send_dead_packet call that starts after an earlier call has returned
\* returns at once: it sends nothing and changes no field of the bridge; and
\* once a call has returned no dead record goes out any more.
C2_SequentialIdempotent ==
  [][ /\ (deadReturned /\ Top = "d_check" /\ TopRan) =>
           /\ stack' = SubSeq(stack, 1, Len(stack) - 1)
           /\ UNCHANGED <<running, last_known_status_num, last_known_status_text,
                          _dead_sent, rb_count, sock, deadCount, deadPkt,
                          closeCount>>
      /\ deadReturned => deadCount' = deadCount
    ]_vars

\* the loop-exit call starts after the handler's call has returned, one dead
\* record having gone out
C2_Witness ==
  /\ deadReturned
  /\ stack = <<"stopped", "d_check">>
  /\ deadCount = 1
  /\ Len(deadPkt) = 1

\* C9 (as claimed): a dead record built while run() is not between its two
\* LastKnownState writes carries the condition code and the on_mains value of
\* the last successful cycle, or Unknown(9) and -1 when there was none.
C9_DeadRecordLastKnown ==
  \A i \in 1..Len(deadPkt) :
    ~deadPkt[i].mid =>
      /\ deadPkt[i].pkt.ups_status = deadPkt[i].last.num
      /\ deadPkt[i].pkt.ups_on_line = deadPkt[i].last.on_line

(***************************************************************************)
(* Termination (SpecLive).                                                 *)
(***************************************************************************)
\* C11: once a signal has been handled (self.running is False) and every
\* fetch and sleep returns, run() begins at most one further fetch, its next
\* test of the flag leaves the loop, the process ends, and it ends only
\* after _send_dead_packet has handed a dead record to _send_packet.
C11_TerminationAfterSignal ==
  /\ [](lateFetch <= 1)
  /\ [][(~running /\ InMain("while") /\ TopRan) => MainPc' = "exit_call"]_vars
  /\ (~running ~> MainPc = "exited")
  /\ [](MainPc = "exited" => Len(deadPkt) >= 1)

\* the signal arrived between the test of the flag and the fetch: one more
\* cycle ran, then the loop ended and the process exited cleanly
C11_Witness ==
  /\ ~running
  /\ lateFetch = 1
  /\ MainPc = "exited"
  /\ exit_code = 0
  /\ Len(deadPkt) >= 1

(***************************************************************************)
(* Exit paths (Spec).                                                      *)
(***************************************************************************)
\* an exception has escaped run(): int() raised on intervall_ol in an Online
\* cycle, whose locals are still those of that cycle
RunRaised == loc.status_num = 1 /\ ~intervall_ol.ok

\* C12: the exit status is 0 when run() returned after the loop saw the
\* flag cleared and 1 when an exception escaped run(); the status is fixed
\* only after a _send_dead_packet call has returned, having handed a dead
\* record to _send_packet, so no process exit happens without the guard.
C12_ExitCodes ==
  /\ exit_code \in {-1, 0, 1}
  /\ MainPc = "exited" => exit_code \in {0, 1}
  /\ exit_code = 0 => (~running /\ ~RunRaised /\ loc = NoLoc)
  /\ exit_code = 1 => RunRaised
  /\ exit_code # -1 =>
       /\ MainPc \in {"finalize", "exited"}
       /\ deadReturned
       /\ _dead_sent
       /\ Len(deadPkt) >= 1
  /\ (RunRaised /\ MainPc \in {"finalize", "exited"}) => exit_code = 1

\* int() raised with no signal handled: the fatal handler's dead record went
\* out and the process is gone with status 1
C12_Witness ==
  /\ MainPc = "exited"
  /\ exit_code = 1
  /\ running
  /\ deadCount = 1
  /\ sigLeft = MaxSignals

(***************************************************************************)
(* Properties of the runtime fields (SpecRt).                              *)
(***************************************************************************)
\* the four runtime fields
RuntimeFieldNames ==
  {"runtime_total_sec", "runtime_total_min", "runtime_min", "runtime_sec"}

\* C13 (as claimed): for every integer rt that to_int returns, the record
\* carries rt and runtime_min = rt div 60, runtime_sec = rt mod 60 with
\* runtime_min * 60 + runtime_sec = rt and 0 <= runtime_sec < 60, and
\* runtime_total_min = ceil(rt / 60) = runtime_min + (1 if runtime_sec > 0
\* else 0); "125" gives 3, 2 and 5; when to_int returns None none of the
\* four fields is present.
C13_RuntimeDerivation ==
  fn.op = "rt_out" =>
    /\ fn.rt = <<>> => DOMAIN fn.fields \cap RuntimeFieldNames = {}
    /\ fn.rt # <<>> =>
         LET f   == fn.fields
             sec == f.runtime_sec[3]
         IN  /\ DOMAIN f = RuntimeFieldNames
             /\ f.runtime_total_sec = fn.rt[1]
             /\ f.runtime_sec = <<0, 0, sec>>
             /\ 0 <= sec /\ sec < 60
             /\ Norm(<<60 * f.runtime_min[1], 60 * f.runtime_min[2],
                       60 * f.runtime_min[3] + sec>>) = fn.rt[1]
             /\ f.runtime_total_min =
                  AddSmall(f.runtime_min, IF sec > 0 THEN 1 ELSE 0)
    /\ fn.v = <<N_125>> =>
         /\ fn.fields.runtime_total_min = FromInt(3)
         /\ fn.fields.runtime_min = FromInt(2)
         /\ fn.fields.runtime_sec = FromInt(5)

(***************************************************************************)
(* LastKnownState across failed fetches (Spec).                            *)
(***************************************************************************)
\* the label map_status pairs with a condition code
LabelOf(code) ==
  IF \E f \in FlagFamilies : f.code = code
  THEN (CHOOSE f \in FlagFamilies : f.code = code).label
  ELSE T_unknown

\* C14: when run() sleeps after a failed fetch, last_known_status_num and
\* last_known_status_text are what they were when the fetch began; so a dead
\* record, built at any time outside the two LastKnownState writes, carries
\* the code and the label of the last successful cycle, or Unknown(9) and
\* "unknown" when there was none, however many fetches failed since.
C14_FailedFetchKeepsLastKnown ==
  /\ MainPc = "err_sleep" =>
       /\ last_known_status_num = pre.num
       /\ last_known_status_text = pre.text
  /\ \A i \in 1..Len(deadPkt) :
       ~deadPkt[i].mid =>
         /\ deadPkt[i].pkt.alive = 0
         /\ deadPkt[i].pkt.ups_status = deadPkt[i].last.num
         /\ deadPkt[i].pkt.status_raw = LabelOf(deadPkt[i].last.num)

\* a successful on-battery cycle, then a failed fetch, and the handler built
\* its dead record during the backoff sleep: it says on_battery
C14_Witness ==
  /\ stack = <<"err_sleep", "d_sleep">>
  /\ sock = "open"
  /\ Len(deadPkt) = 1
  /\ lastOk.num = 2
  /\ deadPkt[1].pkt.ups_status = 2
  /\ deadPkt[1].pkt.status_raw = T_on_battery

(***************************************************************************)
(* Send failures (Spec).                                                   *)
(***************************************************************************)
\* C15: a failed sendto never leaves _send_packet.  In the loop a cycle whose
\* send failed sleeps as it would have (sleep_s by the condition code, or the
\* 10 s backoff) with the counter and LastKnownState it computed, and goes
\* on to the next test of the flag; only int() on intervall_ol raises out of
\* run().  In the guard a failed send is followed by the pause and the
\* finally block: _dead_sent is set and the socket closed whenever a guard
\* call has returned.
C15_SendFailureSwallowed ==
  /\ [](MainPc \in {"fatal", "fatal_exit"} => RunRaised)
  /\ [](MainPc = "sleep" =>
         /\ Len(handed) = 1
         /\ loc.sleep_s = sleep_after(loc.status_num, intervall_ol.val)
         /\ last_known_status_num = loc.status_num
         /\ last_known_status_text = loc.status_text
         /\ rb_count = next_rb_count(pre.rb, loc.raw_rb, loc.st_active,
                                     rb_ignore_during_selftest))
  /\ [](MainPc = "err_sleep" =>
         /\ Len(handed) = 1
         /\ loc.sleep_s = BACKOFF_ERROR_SEC
         /\ rb_count = pre.rb
         /\ last_known_status_num = pre.num
         /\ last_known_status_text = pre.text)
  /\ [][((InMain("sleep") \/ InMain("err_sleep")) /\ TopRan)
          => MainPc' = "while"]_vars
  /\ [][(Top = "d_send" /\ TopRan)
          => (Len(stack') = Len(stack) /\ Top' = "d_sleep")]_vars
  /\ [][(Top = "d_sleep" /\ TopRan) => (_dead_sent' /\ sock' = "closed")]_vars
  /\ [](deadReturned => (_dead_sent /\ sock = "closed"))

\* the record of a non-Online cycle did not go out, run() is in its 5 s sleep
\* all the same, and the handler's dead record did not go out either: the
\* guard has returned with _dead_sent set and the socket closed
C15_Witness ==
  /\ stack = <<"sleep">>
  /\ handed[1].out = FALSE
  /\ loc.status_num = 2
  /\ loc.sleep_s = 5
  /\ Len(deadPkt) = 1
  /\ deadCount = 0
  /\ deadReturned
  /\ _dead_sent
  /\ sock = "closed"

(***************************************************************************)
(* The socket and the guard under nested signals (Spec).                   *)
(***************************************************************************)
\* C16 (as claimed): self.sock.close() is executed at most once, exactly once
\* by the time the process is gone, and the socket is closed by nothing else.
C16_SocketClosedOnce ==
  /\ closeCount <= 1
  /\ MainPc = "exited" => closeCount = 1
  /\ sock = "closed" <=> closeCount >= 1

\* the frames of _send_dead_packet that are past the _dead_sent test
GuardFramesPastCheck == {i \in 1..Len(stack) : stack[i] \in {"d_send", "d_sleep"}}

\* C17 (as claimed): a _send_dead_packet call entered while another one is
\* in progress returns at the _dead_sent test, so no two calls are past the
\* test at once, and at most one dead record is built and at most one goes
\* out, however signals interleave with the guard.
C17_ReentrantGuard ==
  /\ Cardinality(GuardFramesPastCheck) <= 1
  /\ Len(deadPkt) <= 1
  /\ deadCount <= 1

\* C18 (as claimed): whenever the signal interrupts run(), the code and the
\* text a dead record is built from come from one classification (or are
\* both initial): the record's status text is the label of its code.
C18_DeadRecordConsistentPair ==
  \A i \in 1..Len(deadPkt) :
    deadPkt[i].pkt.status_raw = LabelOf(deadPkt[i].pkt.ups_status)

\* C19: once a dead record has gone out, every record run() hands to
\* _send_packet, alive=1 or communication error, fails to go out: run()
\* resumes only after the guard has closed the socket.
C19_NothingAfterDeadRecord ==
  [][(deadCount >= 1 /\ Len(handed') > Len(handed))
       => (/\ sock = "closed"
           /\ handed'[Len(handed')].pkt.alive \in {0, 1}
           /\ ~handed'[Len(handed')].out)]_vars

\* the signal came between the two LastKnownState writes and the dead record
\* went out; the cycle then built its alive=1 record, whose send failed
C19_Witness ==
  /\ stack = <<"sleep">>
  /\ deadCount = 1
  /\ deadPkt[1].mid
  /\ Len(handed) = 1
  /\ handed[1].pkt.alive = 1
  /\ ~handed[1].out

(***************************************************************************)
(* The debounce counter across failed fetches (SpecLoop).                  *)
(***************************************************************************)
\* C20: a failed fetch leaves rb_count as it was when the fetch began; so in
\* a run of trigger-present successful cycles with failed fetches in between
\* and no self-test suppression, the counter is the number of successful
\* cycles of the run, and the flag is allowed exactly from the N-th of them.
C20_FailedFetchKeepsCounter ==
  /\ MainPc = "err_sleep" => rb_count = pre.rb
  /\ (CycleClassified /\ loc.raw_rb /\ ~runSupp /\ runFailed) =>
       /\ rb_count = trigRun
       /\ loc.rb_allowed <=> (trigRun >= rb_threshold)

\* threshold 2: a trigger cycle, a failed fetch, and the second trigger
\* cycle is allowed and classified ReplaceBattery
C20_Witness ==
  /\ MainPc = "lk_text"
  /\ rb_threshold = 2
  /\ runFailed
  /\ ~runSupp
  /\ trigRun = 2
  /\ rb_count = 2
  /\ loc.rb_allowed
  /\ loc.status_num = 4

====
